---- MODULE Spec2Model ----
(***************************************************************************)
(* Model of the generic Matrix[T] container (package structs) and of the   *)
(* RGSW Ciphertext / Plaintext (package rgsw) of lattigo.                  *)
(*                                                                         *)
(* Slices are modelled as Go implements them: a slice header (pointer,     *)
(* length) into a backing array that lives in a heap; the capacity of a    *)
(* slice is the length of its backing array.  Byte streams are sequences   *)
(* of bytes 0..255, length headers are 8-byte little-endian integers.      *)
(***************************************************************************)
EXTENDS Integers, Sequences, FiniteSets, TLC

\* ---------------------------------------------------------------- bounds
MaxRows == 2
MaxLen == 1
MaxMut == 2
MaxLevel == 1
\* the largest slice make() can allocate (memory, scaled down)
MaxAlloc == 8

\* Matrix.BinarySize: size += 8 (the row-count header)
HeaderSize == 8

\* element values of T = uint8 used as inputs, and the content of stale storage
Elem == {1, 2}
Stale == 7

\* size of the buffer of a bufio.Reader / bufio.Writer (scaled down)
BufSize == 16

VARIABLES
    pc,     \* position of the calling program
    heap,   \* backing arrays of all slices
    m,      \* a Matrix: the value written, compared or copied
    r,      \* a Matrix: the receiver of ReadFrom, the copy, the other operand
    ct,     \* an rgsw Ciphertext: the two GadgetCiphertexts of its Value
    snk,    \* the caller's byte sink: bytes delivered so far, and its quota
    src,    \* the caller's byte source: the bytes not yet consumed
    ret,    \* what the last call returned
    aux     \* values recorded before a call, to compare against afterwards

vars == <<pc, heap, m, r, ct, snk, src, ret, aux>>

\* ---------------------------------------------------------------- helpers
Min(a, b) == IF a < b THEN a ELSE b

Drop(s, k) == SubSeq(s, k + 1, Len(s))

Take(s, k) == SubSeq(s, 1, k)

\* ---------------------------------------------------------------- heap and slices
\* heap.o : backing arrays of outer slices ([][]T), cells are row slice headers
\* heap.e : backing arrays of rows ([]T), cells are elements
EmptyHeap == [o |-> <<>>, e |-> <<>>]

NilSlice == [ptr |-> 0, len |-> 0]

NoCiphertext == <<NilSlice, NilSlice>>

CapO(h, s) == IF s.ptr = 0 THEN 0 ELSE Len(h.o[s.ptr])

CapE(h, s) == IF s.ptr = 0 THEN 0 ELSE Len(h.e[s.ptr])

\* the elements v[0:len(v)] of a row
RowVal(h, s) == IF s.ptr = 0 THEN <<>> ELSE Take(h.e[s.ptr], s.len)

\* the row headers mm[0:len(mm)]
RowHdrs(h, mm) == IF mm.ptr = 0 THEN <<>> ELSE Take(h.o[mm.ptr], mm.len)

\* the value of a matrix: the sequence of its rows' elements
View(h, mm) == [i \in 1..mm.len |-> RowVal(h, RowHdrs(h, mm)[i])]

\* A matrix laid out in the heap: one backing array per row (arrs[i], of which
\* the first lens[i] cells are the row), and an outer array of which the first
\* n cells are the matrix.
Build(h, arrs, lens, n) ==
    LET base == Len(h.e)
        outer == [i \in 1..Len(arrs) |-> [ptr |-> base + i, len |-> lens[i]]]
    IN  [h |-> [o |-> Append(h.o, outer), e |-> h.e \o arrs],
         s |-> [ptr |-> Len(h.o) + 1, len |-> n]]

\* a matrix literal [][]T{...}: every slice is full
Literal(h, val) == Build(h, val, [i \in 1..Len(val) |-> Len(val[i])], Len(val))

RowValues == UNION {[1..k -> Elem] : k \in 0..MaxLen}

Matrices == UNION {[1..k -> RowValues] : k \in 0..MaxRows}

\* ---------------------------------------------------------------- byte codec
\* buffer.WriteAsUint64 / ReadAsUint64: 8 bytes, little endian
RECURSIVE LittleEndian(_, _)
LittleEndian(n, k) ==
    IF k = 0 THEN <<>> ELSE <<n % 256>> \o LittleEndian(n \div 256, k - 1)

RECURSIVE FromLittleEndian(_)
FromLittleEndian(b) ==
    IF b = <<>> THEN 0 ELSE b[1] + 256 * FromLittleEndian(Tail(b))

\* ReadAsUint64[int]: the value of an 8-byte header; values of 2^24 and more
\* are all beyond any allocation and are not told apart
ReadAsUint64(b) ==
    IF \E i \in 4..Len(b) : b[i] # 0 THEN 16777216 ELSE FromLittleEndian(Take(b, 3))

\* ---------------------------------------------------------------- byte sinks
\* The caller's sink accepts `room` more bytes and then fails (a quota, a closed
\* channel); room = -1 is a sink that never fails.
NoSink == [out |-> <<>>, room |-> -1]

Accepts(room, k) == IF room < 0 THEN k ELSE Min(room, k)

\* A writer as WriteTo sees it.  direct: the caller's own buffer.Writer, bytes go
\* straight to out.  Otherwise a bufio.Writer around the caller's io.Writer:
\* bytes collect in buf and reach out when the buffer fills up or on Flush.
DirectWriter(sink) ==
    [direct |-> TRUE, buf |-> <<>>, out |-> sink.out, room |-> sink.room, err |-> FALSE]

\* bufio.NewWriter(w)
NewBufioWriter(sink) ==
    [direct |-> FALSE, buf |-> <<>>, out |-> sink.out, room |-> sink.room, err |-> FALSE]

\* one Write of p on the underlying sink, which takes the first k bytes
SinkTake(w, p, k) ==
    [w |-> [w EXCEPT !.out = @ \o Take(p, k),
                     !.room = IF @ < 0 THEN @ ELSE @ - k,
                     !.err = k < Len(p)],
     n |-> k]

SinkWrite(w, p) == SinkTake(w, p, Accepts(w.room, Len(p)))

\* bufio.Writer.Flush: the error is sticky, unwritten bytes stay in the buffer
Unbuffer(w, s) == [s.w EXCEPT !.buf = Drop(w.buf, s.n)]

Flush(w) ==
    IF w.direct \/ w.err \/ w.buf = <<>> THEN w ELSE Unbuffer(w, SinkWrite(w, w.buf))

Available(w) == BufSize - Len(w.buf)

Wrote(s) == [w |-> s.w, n |-> s.n, ok |-> ~s.w.err]

\* the buffer was filled with the first k bytes of p and flushed into f
WriteRest(p, k, f) ==
    IF f.err THEN [w |-> f, n |-> k, ok |-> FALSE]
    ELSE [w |-> [f EXCEPT !.buf = Drop(p, k)], n |-> Len(p), ok |-> TRUE]

\* Write(p) with len(p) <= BufSize: returns the writer, the bytes taken, success
WriteBytes(w, p) ==
    IF w.err THEN [w |-> w, n |-> 0, ok |-> FALSE]
    ELSE IF w.direct THEN Wrote(SinkWrite(w, p))
    ELSE IF Len(p) > Available(w) THEN
        WriteRest(p, Available(w), Flush([w EXCEPT !.buf = @ \o Take(p, Available(w))]))
    ELSE [w |-> [w EXCEPT !.buf = @ \o p], n |-> Len(p), ok |-> TRUE]

\* ---------------------------------------------------------------- byte sources
\* A reader as ReadFrom sees it: buf holds the bytes it can hand out without
\* touching the underlying source, src the bytes still in the underlying source,
\* chunk the most bytes one Read of the underlying source delivers.
\* The caller's own buffer.Reader: everything is in buf.
DirectReader(bytes) == [buf |-> bytes, src |-> <<>>, chunk |-> 1]

\* bufio.NewReader(r): an empty buffer in front of the caller's io.Reader
NewBufioReader(bytes, chunk) == [buf |-> <<>>, src |-> bytes, chunk |-> chunk]

\* bufio.Reader.fill: one Read of the underlying source, c bytes arrive
Fill(rd, c) == [rd EXCEPT !.buf = @ \o Take(rd.src, c), !.src = Drop(@, c)]

\* Peek(k) then Discard(k), k <= BufSize: bufio fills its buffer with one Read
\* of the underlying source at a time until k bytes are buffered.
RECURSIVE ReadBytes(_, _)
ReadBytes(rd, k) ==
    IF Len(rd.buf) >= k THEN
        [rd |-> [rd EXCEPT !.buf = Drop(@, k)], data |-> Take(rd.buf, k), ok |-> TRUE]
    ELSE IF rd.src = <<>> THEN [rd |-> rd, data |-> <<>>, ok |-> FALSE]
    ELSE ReadBytes(Fill(rd, Min(Min(rd.chunk, BufSize - Len(rd.buf)), Len(rd.src))), k)

\* ---------------------------------------------------------------- Vector (rows)
\* Vector[T].Equal for a primitive T: compare by value
VectorEqual(a, b) == a = b

\* Vector[T].BinarySize for T = uint8: length header plus one byte per element
VectorBinarySize(v) == HeaderSize + Len(v)

\* Vector[T].WriteTo on a buffer.Writer: the length header, then the elements in
\* order.  fails: T is a structured type whose own WriteTo returns an error.
RECURSIVE WriteElems(_, _, _, _)
WriteElemsNext(x, v, j, n) ==
    IF ~x.ok THEN [w |-> x.w, n |-> n + x.n, ok |-> FALSE]
    ELSE WriteElems(x.w, v, j + 1, n + x.n)

WriteElems(w, v, j, n) ==
    IF j > Len(v) THEN [w |-> w, n |-> n, ok |-> TRUE]
    ELSE WriteElemsNext(WriteBytes(w, <<v[j]>>), v, j, n)

VectorWriteElems(v, fails, hd) ==
    IF ~hd.ok \/ (fails /\ v # <<>>) THEN [w |-> hd.w, n |-> hd.n, ok |-> FALSE]
    ELSE WriteElems(hd.w, v, 1, hd.n)

VectorWriteTo(v, w, fails) ==
    VectorWriteElems(v, fails, WriteBytes(w, LittleEndian(Len(v), HeaderSize)))

\* Vector[T].ReadFrom on a buffer.Reader: the length header, resize the receiver
\* (a new array only when the capacity does not suffice), then the elements.
RECURSIVE ReadElems(_, _, _, _)
ReadElemsNext(arr, x, j, size) ==
    IF ~x.ok THEN [arr |-> arr, rd |-> x.rd, n |-> j - 1, ok |-> FALSE]
    ELSE ReadElems([arr EXCEPT ![j] = x.data[1]], x.rd, j + 1, size)

ReadElems(arr, rd, j, size) ==
    IF j > size THEN [arr |-> arr, rd |-> rd, n |-> size, ok |-> TRUE]
    ELSE ReadElemsNext(arr, ReadBytes(rd, 1), j, size)

VectorFilled(h, v, el) ==
    [h |-> [h EXCEPT !.e[v.ptr] = el.arr], v |-> v, rd |-> el.rd,
     n |-> HeaderSize + el.n, ok |-> el.ok, panic |-> FALSE]

VectorFill(h, v, rd) ==
    IF v.len = 0 THEN
        [h |-> h, v |-> v, rd |-> rd, n |-> HeaderSize, ok |-> TRUE, panic |-> FALSE]
    ELSE VectorFilled(h, v, ReadElems(h.e[v.ptr], rd, 1, v.len))

\* if cap(*v) < size { *v = make([]T, size) }; *v = (*v)[:size]
VectorResize(h, v, rd, size) ==
    IF size > MaxAlloc THEN
        [h |-> h, v |-> v, rd |-> rd, n |-> HeaderSize, ok |-> FALSE, panic |-> TRUE]
    ELSE IF CapE(h, v) < size THEN
        VectorFill([h EXCEPT !.e = Append(@, [j \in 1..size |-> 0])],
                   [ptr |-> Len(h.e) + 1, len |-> size], rd)
    ELSE VectorFill(h, [v EXCEPT !.len = size], rd)

VectorReadHeader(h, v, hd) ==
    IF ~hd.ok THEN
        [h |-> h, v |-> v, rd |-> hd.rd, n |-> 0, ok |-> FALSE, panic |-> FALSE]
    ELSE VectorResize(h, v, hd.rd, ReadAsUint64(hd.data))

VectorReadFrom(h, v, rd) == VectorReadHeader(h, v, ReadBytes(rd, HeaderSize))

\* ---------------------------------------------------------------- Matrix.Equal
\* for i := range m { isEqual = isEqual && Vector(m[i]).Equal(Vector(other[i])) }
\* other[i] is evaluated only while isEqual is still true (&& short-circuits);
\* indexing other beyond its length panics.
RECURSIVE EqualLoop(_, _, _, _)
EqualLoop(a, b, i, isEqual) ==
    IF i > Len(a) THEN (IF isEqual THEN "true" ELSE "false")
    ELSE IF ~isEqual THEN EqualLoop(a, b, i + 1, FALSE)
    ELSE IF i > Len(b) THEN "panic"
    ELSE EqualLoop(a, b, i + 1, VectorEqual(a[i], b[i]))

MatrixEqual(h, a, b) == EqualLoop(View(h, a), View(h, b), 1, TRUE)

\* ---------------------------------------------------------------- Matrix.CopyNew
\* aliasing copy: the rows of the copy are the rows of the receiver
CopyNewShallow(h, mm) ==
    [h |-> [h EXCEPT !.o = Append(@, RowHdrs(h, mm))],
     s |-> [ptr |-> Len(h.o) + 1, len |-> mm.len]]

\* mcpy = make([][]T, len(m)); mcpy[i] = make([]T, len(m[i])); copy(mcpy[i], m[i])
CopyNew(h, mm) == Literal(h, View(h, mm))

\* ---------------------------------------------------------------- Matrix.BinarySize
RECURSIVE SumSizes(_)
SumSizes(rows) ==
    IF rows = <<>> THEN 0 ELSE VectorBinarySize(Head(rows)) + SumSizes(Tail(rows))

BinarySize(h, mm) == HeaderSize + SumSizes(View(h, mm))

\* ---------------------------------------------------------------- Matrix.WriteTo
\* case buffer.Writer: the row-count header, each row, then w.Flush() on success.
\* bad: the index of a row whose elements fail to write themselves (0: none).
Flushed(f, n) == [w |-> f, n |-> n, ok |-> ~f.err]

\* a return that leaves the buffer as it is
ReturnUnflushed(w, n) == [w |-> w, n |-> n, ok |-> TRUE]

\* return n, w.Flush()
ReturnFlushed(w, n) == Flushed(Flush(w), n)

RECURSIVE WriteRows(_, _, _, _, _)
WriteRowsNext(v, rows, i, n, bad) ==
    IF ~v.ok THEN [w |-> v.w, n |-> n + v.n, ok |-> FALSE]
    ELSE WriteRows(v.w, rows, i + 1, n + v.n, bad)

WriteRows(w, rows, i, n, bad) ==
    IF i > Len(rows) THEN ReturnFlushed(w, n)
    ELSE WriteRowsNext(VectorWriteTo(rows[i], w, i = bad), rows, i, n, bad)

WriteAfterHeader(rows, bad, hd) ==
    IF ~hd.ok THEN [w |-> hd.w, n |-> hd.n, ok |-> FALSE]
    ELSE WriteRows(hd.w, rows, 1, hd.n, bad)

WriteToBuffered(rows, w, bad) ==
    WriteAfterHeader(rows, bad, WriteBytes(w, LittleEndian(Len(rows), HeaderSize)))

\* Matrix.MarshalBinary: WriteTo on a fresh in-memory buffer, then its bytes
MarshalRows(rows) == WriteToBuffered(rows, DirectWriter(NoSink), 0).w.out

\* the type switch: a buffer.Writer is used as it is, anything else is wrapped
\* in bufio.NewWriter(w) for this call
WrapWriter(kind, sink) ==
    IF kind = "buffer" THEN DirectWriter(sink) ELSE NewBufioWriter(sink)

MatrixWriteTo(h, mm, kind, sink, bad) ==
    WriteToBuffered(View(h, mm), WrapWriter(kind, sink), bad)

\* ---------------------------------------------------------------- Matrix.ReadFrom
\* (*Vector[T])(&(*m)[i]).ReadFrom(r) works on the row header in place
StoreRow(h, mm, i, v) == [h EXCEPT !.o[mm.ptr][i] = v]

RECURSIVE ReadRows(_, _, _, _, _)
ReadRowsNext(mm, i, n, v) ==
    IF ~v.ok THEN
        [h |-> StoreRow(v.h, mm, i, v.v), m |-> mm, rd |-> v.rd, n |-> n + v.n,
         ok |-> FALSE, panic |-> v.panic]
    ELSE ReadRows(StoreRow(v.h, mm, i, v.v), mm, v.rd, i + 1, n + v.n)

ReadRows(h, mm, rd, i, n) ==
    IF i > mm.len THEN
        [h |-> h, m |-> mm, rd |-> rd, n |-> n, ok |-> TRUE, panic |-> FALSE]
    ELSE ReadRowsNext(mm, i, n, VectorReadFrom(h, h.o[mm.ptr][i], rd))

\* the resize without the re-slice *m = (*m)[:size]
ResizeKeepLen(h, mm, size) ==
    IF CapO(h, mm) < size
    THEN [h |-> [h EXCEPT !.o = Append(@, [i \in 1..size |-> NilSlice])],
          m |-> [ptr |-> Len(h.o) + 1, len |-> size]]
    ELSE [h |-> h, m |-> mm]

\* if cap(*m) < size { *m = make([][]T, size) }; *m = (*m)[:size]
Resize(h, mm, size) ==
    IF CapO(h, mm) < size
    THEN [h |-> [h EXCEPT !.o = Append(@, [i \in 1..size |-> NilSlice])],
          m |-> [ptr |-> Len(h.o) + 1, len |-> size]]
    ELSE [h |-> h, m |-> [mm EXCEPT !.len = size]]

ReadResized(rs, rd) == ReadRows(rs.h, rs.m, rd, 1, HeaderSize)

ReadAfterHeader(h, mm, hd) ==
    IF ~hd.ok THEN
        [h |-> h, m |-> mm, rd |-> hd.rd, n |-> 0, ok |-> FALSE, panic |-> FALSE]
    ELSE IF ReadAsUint64(hd.data) > MaxAlloc THEN
        [h |-> h, m |-> mm, rd |-> hd.rd, n |-> HeaderSize, ok |-> FALSE,
         panic |-> TRUE]
    ELSE ReadResized(Resize(h, mm, ReadAsUint64(hd.data)), hd.rd)

\* case buffer.Reader
ReadFromBuffered(h, mm, rd) == ReadAfterHeader(h, mm, ReadBytes(rd, HeaderSize))

\* the type switch: a buffer.Reader is used as it is, anything else is wrapped
\* in bufio.NewReader(r) for this call
WrapReader(kind, bytes, chunk) ==
    IF kind = "buffer" THEN DirectReader(bytes) ELSE NewBufioReader(bytes, chunk)

\* what is left in the caller's source once the call has returned
Unread(kind, rd) == IF kind = "buffer" THEN rd.buf ELSE rd.src

MatrixReadFrom(h, mm, kind, bytes, chunk) ==
    ReadFromBuffered(h, mm, WrapReader(kind, bytes, chunk))

\* ================================================================ Equal
Idle == [op |-> "none"]

InitEqual ==
    /\ pc = "eq_init"
    /\ \E a \in Matrices, b \in Matrices :
          LET x == Literal(EmptyHeap, a)
              y == Literal(x.h, b)
          IN  heap = y.h /\ m = x.s /\ r = y.s
    /\ ret = Idle
    /\ aux = Idle
    /\ snk = NoSink
    /\ src = <<>>
    /\ ct = NoCiphertext

\* m.Equal(r)
Equal ==
    /\ pc = "eq_init"
    /\ pc' = "eq_done"
    /\ ret' = [op |-> "Equal", eq |-> MatrixEqual(heap, m, r)]
    /\ UNCHANGED <<heap, m, r, ct, snk, src, aux>>

\* r.Equal(m)
EqualRev ==
    /\ pc = "eq_init"
    /\ pc' = "eq_done"
    /\ ret' = [op |-> "EqualRev", eq |-> MatrixEqual(heap, r, m)]
    /\ UNCHANGED <<heap, m, r, ct, snk, src, aux>>

NextEqual == Equal \/ EqualRev

SpecEqual == InitEqual /\ [][NextEqual]_vars

\* C1: Matrix.Equal is structural equality: it returns true exactly when both
\* matrices have the same number of rows and equal rows, false otherwise (never
\* failing), whichever of the two is the receiver.
C1_EqualIsStructural ==
    pc = "eq_done" =>
        ret.eq = (IF View(heap, m) = View(heap, r) THEN "true" ELSE "false")

\* ================================================================ WriteTo / ReadFrom
\* prior states of a receiver: nil, or an outer slice of length ol and capacity
\* oc whose rows have length rl and capacity rc and hold stale elements
RowShapes == {<<0, 0>>, <<1, 0>>, <<1, 1>>, <<MaxLen, 0>>, <<MaxLen, MaxLen>>}

Receiver(h, oc, ol, rc, rl) ==
    Build(h, [i \in 1..oc |-> [j \in 1..rc |-> Stale]], [i \in 1..oc |-> rl], ol)

InitCodecWith(rooms) ==
    /\ pc = "cd_init"
    /\ \E a \in Matrices :
          LET x == Literal(EmptyHeap, a) IN
          /\ m = x.s
          /\ \/ heap = x.h /\ r = NilSlice
             \/ \E oc \in 0..MaxRows, sh \in RowShapes :
                   \E ol \in 0..oc :
                      LET y == Receiver(x.h, oc, ol, sh[1], sh[2]) IN
                      heap = y.h /\ r = y.s
    /\ snk \in [out : {<<>>}, room : rooms]
    /\ src = <<>>
    /\ ct = NoCiphertext
    /\ ret = Idle
    /\ aux = [x |-> View(heap, m), prior |-> r, priorView |-> View(heap, r),
              priorHeap |-> heap, sent |-> <<>>]

\* n, err := m.WriteTo(w), w the caller's sink (a buffer.Writer or not)
MWrite(bads) ==
    /\ pc = "cd_init"
    /\ \E kind \in {"buffer", "plain"}, bad \in bads :
          \E res \in {MatrixWriteTo(heap, m, kind, snk, bad)} :
          /\ snk' = [out |-> res.w.out, room |-> res.w.room]
          /\ ret' = [op |-> "WriteTo", kind |-> kind, n |-> res.n, ok |-> res.ok,
                     left |-> res.w.buf, size |-> BinarySize(heap, m)]
    /\ pc' = "cd_written"
    /\ UNCHANGED <<heap, m, r, ct, src, aux>>

\* the bytes written become the source of a reader
Send ==
    /\ pc = "cd_written" /\ ret.ok
    /\ src' = snk.out
    /\ aux' = [aux EXCEPT !.sent = src']
    /\ pc' = "cd_ready"
    /\ UNCHANGED <<heap, m, r, ct, snk, ret>>

\* the source ends early: only a strict prefix of the bytes arrives
SendTruncated ==
    /\ pc = "cd_written" /\ ret.ok
    /\ \E k \in 0..(Len(snk.out) - 1) : src' = Take(snk.out, k)
    /\ aux' = [aux EXCEPT !.sent = src']
    /\ pc' = "cd_ready"
    /\ UNCHANGED <<heap, m, r, ct, snk, ret>>

\* a second copy of the object is encoded directly after the first
SendTwice ==
    /\ pc = "cd_written" /\ ret.ok
    /\ src' = snk.out \o snk.out
    /\ aux' = [aux EXCEPT !.sent = src']
    /\ pc' = "cd_ready"
    /\ UNCHANGED <<heap, m, r, ct, snk, ret>>

\* n, err := r.ReadFrom(source), the source a buffer.Reader or not
MRead ==
    /\ pc \in {"cd_ready", "cd_read"}
    /\ pc = "cd_read" => ret.ok /\ ret.calls = 1 /\ Len(aux.sent) > ret.n
    /\ \E kind \in {"buffer", "plain"}, chunk \in {1, HeaderSize, BufSize} :
          \E res \in {MatrixReadFrom(heap, r, kind, src, chunk)} :
          /\ heap' = res.h
          /\ r' = res.m
          /\ src' = Unread(kind, res.rd)
          /\ ret' = [op |-> "ReadFrom", kind |-> kind, n |-> res.n, ok |-> res.ok,
                     panic |-> res.panic, before |-> src, calls |-> IF pc = "cd_read" THEN 2 ELSE 1]
    /\ pc' = "cd_read"
    /\ UNCHANGED <<m, ct, snk, aux>>

InitCodec == InitCodecWith({-1})

NextCodec == MWrite({0}) \/ Send \/ MRead

SpecCodec == InitCodec /\ [][NextCodec]_vars

InitFault == InitCodecWith({-1, 0, HeaderSize, BufSize})

NextFault == MWrite(0..MaxRows) \/ Send \/ SendTruncated \/ SendTwice \/ MRead

SpecFault == InitFault /\ [][NextFault]_vars

\* C4: a successful m.WriteTo returns n = m.BinarySize() and the sink receives
\* exactly n bytes; BinarySize is 8 plus the sum of the rows' Vector sizes (8 for
\* an empty matrix); neither call modifies m.
C4_SizeExact ==
    pc = "cd_written" /\ ret.ok =>
        /\ ret.n = ret.size
        /\ Len(snk.out) = ret.n
        /\ ret.size = HeaderSize + SumSizes(aux.x)
        /\ (m.len = 0 => ret.size = 8)
        /\ View(heap, m) = aux.x
        /\ heap = aux.priorHeap

C4_Witness ==
    /\ pc = "cd_written" /\ ret.ok /\ ret.kind = "plain"
    /\ m.len = MaxRows
    /\ \E i, j \in 1..m.len : Len(aux.x[i]) < Len(aux.x[j])

\* C2: r.ReadFrom on the bytes x.WriteTo produced succeeds and leaves r with the
\* rows of x, whatever r held before (nil, shorter, longer, spare capacity with
\* stale rows).
C2_RoundTrip ==
    pc = "cd_read" =>
        /\ ret.ok
        /\ r.len = m.len
        /\ View(heap, r) = View(heap, m)
        /\ View(heap, m) = aux.x
        /\ ret.n = Len(aux.sent)

C2_Witness ==
    /\ pc = "cd_read"
    /\ r.ptr = aux.prior.ptr
    /\ aux.prior.len > r.len
    /\ r.len >= 1
    /\ aux.priorView[1] # <<>>
    /\ View(heap, r)[1] # <<>>

\* C3: a ReadFrom that succeeds has consumed exactly the BinarySize() bytes of
\* the object from the caller's source, be the source a buffer.Reader or a plain
\* io.Reader: what follows the encoding is still there to be read, and a second
\* ReadFrom on the same source recovers a second object encoded after the first.
C3_ExactConsumption ==
    pc = "cd_read" =>
        /\ ret.ok => /\ ret.n = BinarySize(heap, r)
                     /\ src = Drop(ret.before, ret.n)
        /\ ret.calls = 2 => ret.ok /\ View(heap, r) = aux.x

\* C5: when the sink is not a buffer.Writer, every byte written into the
\* buffering writer has reached the sink when WriteTo returns, on success and on
\* every error path.  Stated for a sink that itself accepts every byte, so that
\* nothing but a missing flush can keep bytes back.
C5_AlwaysFlushed ==
    pc = "cd_written" /\ ret.kind = "plain" /\ snk.room < 0 => ret.left = <<>>

\* C7: a ReadFrom that cannot complete returns an error; without an error the
\* receiver holds exactly the declared rows; after an error the receiver is
\* either fully populated or in its previous state.
C7_FailedReadKeepsReceiver ==
    pc = "cd_read" /\ ret.calls = 1 =>
        /\ Len(aux.sent) < Len(snk.out) => ~ret.ok
        /\ ret.ok => View(heap, r) = aux.x
        /\ ~ret.ok => \/ r = aux.prior /\ View(heap, r) = aux.priorView
                      \/ View(heap, r) = aux.x

\* ================================================================ CopyNew
InitCopy ==
    /\ pc = "cp_init"
    /\ \/ \E a \in Matrices :
             LET x == Literal(EmptyHeap, a) IN heap = x.h /\ m = x.s
       \/ heap = EmptyHeap /\ m = NilSlice
    /\ r = NilSlice
    /\ ret = Idle
    /\ aux = [orig |-> View(heap, m), muts |-> 0]
    /\ snk = NoSink
    /\ src = <<>>
    /\ ct = NoCiphertext

\* y := x.CopyNew()
DoCopyNew ==
    /\ pc = "cp_init"
    /\ LET c == CopyNew(heap, m) IN heap' = c.h /\ r' = c.s
    /\ pc' = "cp_copied"
    /\ ret' = [op |-> "CopyNew", eq |-> MatrixEqual(heap', r', m)]
    /\ UNCHANGED <<m, ct, snk, src, aux>>

\* y[i][j] = v
SetElem ==
    /\ pc \in {"cp_copied", "cp_mutated"}
    /\ aux.muts < MaxMut
    /\ \E i \in 1..r.len :
          LET hd == heap.o[r.ptr][i] IN
          \E j \in 1..hd.len, v \in Elem :
             heap' = [heap EXCEPT !.e[hd.ptr][j] = v]
    /\ pc' = "cp_mutated"
    /\ aux' = [aux EXCEPT !.muts = @ + 1]
    /\ UNCHANGED <<m, r, ct, snk, src, ret>>

\* y[i] = make([]T, k), filled with a value of its own
ReplaceRow ==
    /\ pc \in {"cp_copied", "cp_mutated"}
    /\ aux.muts < MaxMut
    /\ \E i \in 1..r.len, row \in {[j \in 1..k |-> Stale] : k \in 0..MaxLen} :
          heap' = [o |-> [heap.o EXCEPT ![r.ptr][i] =
                                [ptr |-> Len(heap.e) + 1, len |-> Len(row)]],
                   e |-> Append(heap.e, row)]
    /\ pc' = "cp_mutated"
    /\ aux' = [aux EXCEPT !.muts = @ + 1]
    /\ UNCHANGED <<m, r, ct, snk, src, ret>>

NextCopy == DoCopyNew \/ SetElem \/ ReplaceRow

SpecCopy == InitCopy /\ [][NextCopy]_vars

\* the rows of a and of b have no backing array in common
NoSharedRows(h, a, b) ==
    /\ a.ptr # b.ptr
    /\ \A i \in 1..a.len, j \in 1..b.len :
          RowHdrs(h, a)[i].ptr # RowHdrs(h, b)[j].ptr

\* C8: after y := x.CopyNew(), y has the rows of x and y.Equal(x) holds; no row
\* of y shares storage with a row of x, and no later element write or row
\* replacement on y changes x (hence x's size and encoding).
C8_CopyIndependent ==
    /\ pc \in {"cp_copied", "cp_mutated"} =>
          /\ View(heap, m) = aux.orig
          /\ NoSharedRows(heap, r, m)
          /\ r.len = m.len
    /\ pc = "cp_copied" =>
          /\ View(heap, r) = View(heap, m)
          /\ ret.eq = "true"

C8_Witness ==
    /\ pc = "cp_mutated"
    /\ aux.muts = MaxMut
    /\ m.len = MaxRows
    /\ \A i \in 1..m.len : View(heap, r)[i] # View(heap, m)[i]

\* ================================================================ rlwe gadgets
\* A GadgetCiphertext is a Matrix with one row per digit; an entry is a pair of
\* ring elements, which carries its levels of Q and P and is encoded in one byte.
LevelCode(levelQ, levelP) == 10 * levelQ + levelP + 1

\* the digit count for the levels: ceil((levelQ + 1) / (levelP + 1))
DecompRNS(levelQ, levelP) ==
    IF levelP < 0 THEN levelQ + 1 ELSE (levelQ + levelP + 1) \div (levelP + 1)

GadgetValue(levelQ, levelP) ==
    [i \in 1..DecompRNS(levelQ, levelP) |-> <<LevelCode(levelQ, levelP)>>]

\* rlwe.NewGadgetCiphertext(params, 1, levelQ, levelP, 0)
NewGadgetCiphertext(h, levelQ, levelP) == Literal(h, GadgetValue(levelQ, levelP))

\* GadgetCiphertext.LevelQ / LevelP: the levels of the first entry
GadgetLevelQ(h, g) == View(h, g)[1][1] \div 10

GadgetLevelP(h, g) == (View(h, g)[1][1] % 10) - 1

LevelsQ == 0..MaxLevel

LevelsP == -1..MaxLevel

\* ================================================================ rgsw.Ciphertext
\* NewCiphertext: two gadget ciphertexts allocated with the same parameters
NewCiphertext(h, levelQ, levelP) ==
    LET g0 == NewGadgetCiphertext(h, levelQ, levelP)
        g1 == NewGadgetCiphertext(g0.h, levelQ, levelP)
    IN  [h |-> g1.h, ct |-> <<g0.s, g1.s>>]

\* Ciphertext.LevelQ / LevelP read Value[0]
CtLevelQ(h, c) == GadgetLevelQ(h, c[1])

CtLevelP(h, c) == GadgetLevelP(h, c[1])

\* Ciphertext.BinarySize
CtBinarySize(h, c) == BinarySize(h, c[1]) + BinarySize(h, c[2])

\* return n + inc, err
CtWriteSecond(a, b) == [w |-> b.w, n |-> a.n + b.n, ok |-> b.ok, half |-> 2]

\* if n, err = ct.Value[0].WriteTo(w); err != nil { return }
CtWriteFirst(h, c, a) ==
    IF ~a.ok THEN [w |-> a.w, n |-> a.n, ok |-> FALSE, half |-> 1]
    ELSE CtWriteSecond(a, WriteToBuffered(View(h, c[2]), a.w, 0))

\* a WriteTo that writes Value[1] before Value[0]
CtWriteToSwapped(h, c, w) ==
    CtWriteFirst(h, <<c[2], c[1]>>, WriteToBuffered(View(h, c[2]), w, 0))

\* Ciphertext.WriteTo, case buffer.Writer: Value[0], then Value[1] unless the
\* first failed.  half: the half the call returned from.
CtWriteToBuffered(h, c, w) ==
    CtWriteFirst(h, c, WriteToBuffered(View(h, c[1]), w, 0))

\* default: ct.WriteTo(bufio.NewWriter(w))
CtWriteTo(h, c, kind, sink) == CtWriteToBuffered(h, c, WrapWriter(kind, sink))

\* return n + inc, err
CtReadSecond(c, a, b) ==
    [h |-> b.h, ct |-> <<a.m, b.m>>, rd |-> b.rd, n |-> a.n + b.n, ok |-> b.ok,
     panic |-> b.panic, half |-> 2]

\* if n, err = ct.Value[0].ReadFrom(r); err != nil { return }
CtReadFirst(c, a) ==
    IF ~a.ok THEN [h |-> a.h, ct |-> <<a.m, c[2]>>, rd |-> a.rd, n |-> a.n,
                   ok |-> FALSE, panic |-> a.panic, half |-> 1]
    ELSE CtReadSecond(c, a, ReadFromBuffered(a.h, c[2], a.rd))

\* Ciphertext.ReadFrom, case buffer.Reader
CtReadFromBuffered(h, c, rd) == CtReadFirst(c, ReadFromBuffered(h, c[1], rd))

\* default: ct.ReadFrom(bufio.NewReader(r))
CtReadFrom(h, c, kind, bytes, chunk) ==
    CtReadFromBuffered(h, c, WrapReader(kind, bytes, chunk))

\* ================================================================ rgsw.Plaintext
ValueKinds == {"uint64", "int64", "ring.Poly", "string"}

\* rlwe.NewGadgetPlaintext: a pointer to a gadget plaintext for a uint64, an
\* int64 or a ring polynomial; for any other value a nil pointer and an error
NewGadgetPlaintext(kind, levelQ, levelP) ==
    IF kind \in {"uint64", "int64", "ring.Poly"}
    THEN [pt |-> [isNil |-> FALSE, Value |-> GadgetValue(levelQ, levelP)],
          err |-> FALSE]
    ELSE [pt |-> [isNil |-> TRUE, Value |-> <<>>], err |-> TRUE]

\* gct, err := rlwe.NewGadgetPlaintext(...); return &Plaintext{Value: gct.Value}, err
NewPlaintext(kind, levelQ, levelP) ==
    LET g == NewGadgetPlaintext(kind, levelQ, levelP) IN
    IF g.pt.isNil THEN [outcome |-> "panic", value |-> <<>>]
    ELSE [outcome |-> IF g.err THEN "error" ELSE "ok", value |-> g.pt.Value]

\* ================================================================ rgsw scenarios
InitCt ==
    /\ pc = "ct_init"
    /\ \E levelQ \in LevelsQ, levelP \in LevelsP :
          \E c \in {NewCiphertext(EmptyHeap, levelQ, levelP)} :
             heap = c.h /\ ct = c.ct
    /\ m = NilSlice
    /\ r = NilSlice
    /\ snk = NoSink
    /\ src = <<>>
    /\ ret = Idle
    /\ aux = [v0 |-> View(heap, ct[1]), v1 |-> View(heap, ct[2]), sent |-> <<>>,
              full |-> TRUE]

InitPt ==
    /\ pc = "pt_init"
    /\ heap = EmptyHeap
    /\ m = NilSlice
    /\ r = NilSlice
    /\ ct = NoCiphertext
    /\ snk = NoSink
    /\ src = <<>>
    /\ ret = Idle
    /\ \E kind \in ValueKinds, levelQ \in LevelsQ, levelP \in LevelsP :
          aux = [kind |-> kind, levelQ |-> levelQ, levelP |-> levelP]

\* n, err := ct.WriteTo(w) on a fresh sink with a quota
CtWrite ==
    /\ pc \in {"ct_init", "ct_read"}
    /\ pc = "ct_read" => ret.ok
    /\ \E kind \in {"buffer", "plain"}, room \in {-1, 0, HeaderSize, BufSize, BufSize + 1} :
          \E res \in {CtWriteTo(heap, ct, kind, [out |-> <<>>, room |-> room])} :
             /\ snk' = [out |-> res.w.out, room |-> res.w.room]
             /\ ret' = [op |-> "WriteTo", kind |-> kind, n |-> res.n, ok |-> res.ok,
                        half |-> res.half, left |-> res.w.buf,
                        size |-> CtBinarySize(heap, ct)]
    /\ pc' = "ct_written"
    /\ UNCHANGED <<heap, m, r, ct, src, aux>>

\* the source holds the encodings of two valid gadget ciphertexts, one after
\* the other, or only the first k bytes of them
Supply ==
    /\ pc = "ct_init"
    /\ \E q0 \in LevelsQ, p0 \in LevelsP, q1 \in LevelsQ, p1 \in LevelsP :
          \E all \in {MarshalRows(GadgetValue(q0, p0)) \o MarshalRows(GadgetValue(q1, p1))} :
             \E k \in 0..Len(all) :
                /\ src' = Take(all, k)
                /\ aux' = [aux EXCEPT !.sent = src', !.full = (k = Len(all)),
                                      !.v0 = GadgetValue(q0, p0),
                                      !.v1 = GadgetValue(q1, p1)]
    /\ pc' = "ct_ready"
    /\ UNCHANGED <<heap, m, r, ct, snk, ret>>

\* n, err := ct.ReadFrom(source)
CtRead ==
    /\ pc = "ct_ready"
    /\ \E kind \in {"buffer", "plain"}, chunk \in {1, HeaderSize, BufSize} :
          \E res \in {CtReadFrom(heap, ct, kind, src, chunk)} :
             /\ heap' = res.h
             /\ ct' = res.ct
             /\ src' = Unread(kind, res.rd)
             /\ ret' = [op |-> "ReadFrom", kind |-> kind, n |-> res.n, ok |-> res.ok,
                        panic |-> res.panic, half |-> res.half, before |-> src,
                        prior |-> ct, priorView1 |-> View(heap, ct[2])]
    /\ pc' = "ct_read"
    /\ aux' = [aux EXCEPT !.v0 = View(heap', ct'[1]), !.v1 = View(heap', ct'[2])]
    /\ UNCHANGED <<m, r, snk>>

\* pt, err := NewPlaintext(params, value, levelQ, levelP, 0)
DoNewPlaintext ==
    /\ pc = "pt_init"
    /\ ret' = [op |-> "NewPlaintext"] @@ NewPlaintext(aux.kind, aux.levelQ, aux.levelP)
    /\ pc' = "pt_done"
    /\ UNCHANGED <<heap, m, r, ct, snk, src, aux>>

InitRGSW == InitCt \/ InitPt

NextRGSW == CtWrite \/ Supply \/ CtRead \/ DoNewPlaintext

SpecRGSW == InitRGSW /\ [][NextRGSW]_vars

\* the wire format of a Matrix: the row count, then each row as its length
\* followed by its elements, all counts as 8 little-endian bytes
RECURSIVE WireRows(_)
WireRows(rows) ==
    IF rows = <<>> THEN <<>>
    ELSE LittleEndian(Len(Head(rows)), 8) \o Head(rows) \o WireRows(Tail(rows))

Wire(rows) == LittleEndian(Len(rows), 8) \o WireRows(rows)

IsPrefix(a, b) == Len(a) <= Len(b) /\ a = Take(b, Len(a))

\* C6: after NewCiphertext and any ReadFrom of the encodings of two valid
\* gadget ciphertexts, both halves have the same LevelQ, LevelP and digit count.
C6_HalvesAgree ==
    pc \in {"ct_init", "ct_read"} /\ aux.full =>
        /\ ct[1].len = ct[2].len
        /\ GadgetLevelQ(heap, ct[1]) = GadgetLevelQ(heap, ct[2])
        /\ GadgetLevelP(heap, ct[1]) = GadgetLevelP(heap, ct[2])

\* C9: the wire format of a Ciphertext is the encoding of Value[0] followed by
\* that of Value[1].  A successful WriteTo delivers exactly that and returns
\* BinarySize() = Value[0].BinarySize() + Value[1].BinarySize(); a successful
\* ReadFrom fills Value[0] then Value[1] from it and returns the same total.  When
\* the first half fails nothing of the second is written (read) and the count
\* returned is the first half's.
C9_WireFormat ==
    /\ pc = "ct_written" =>
          /\ ret.size = Len(Wire(aux.v0)) + Len(Wire(aux.v1))
          /\ IsPrefix(snk.out \o ret.left, Wire(aux.v0) \o Wire(aux.v1))
          /\ ret.ok => ret.n = ret.size /\ snk.out = Wire(aux.v0) \o Wire(aux.v1)
          /\ ~ret.ok /\ ret.half = 1 =>
                /\ ret.n <= Len(Wire(aux.v0))
                /\ Len(snk.out \o ret.left) <= Len(Wire(aux.v0))
    /\ pc = "ct_read" =>
          /\ ret.ok => /\ ret.before = Wire(View(heap, ct[1])) \o Wire(View(heap, ct[2]))
                       /\ ret.n = Len(ret.before)
                       /\ ret.n = CtBinarySize(heap, ct)
          /\ ~ret.ok /\ ret.half = 1 =>
                /\ ct[2] = ret.prior[2]
                /\ View(heap, ct[2]) = ret.priorView1
                /\ ret.n <= Len(ret.before)

C9_Witness ==
    /\ pc = "ct_written" /\ ret.ok /\ ret.kind = "plain"
    /\ aux.v0 # aux.v1
    /\ Len(aux.v0) > 1

\* C10: NewPlaintext returns the error of NewGadgetPlaintext to its caller and
\* does not fail on the absent gadget plaintext; on success it holds exactly the
\* gadget plaintext's Value and the error is nil.
C10_ErrorReturned ==
    pc = "pt_done" =>
        IF aux.kind \in {"uint64", "int64", "ring.Poly"}
        THEN ret.outcome = "ok" /\ ret.value = GadgetValue(aux.levelQ, aux.levelP)
        ELSE ret.outcome = "error"

====
